---- MODULE Spec2Model ----
(***************************************************************************)
(* Title-card generator (src/app.py): the render pipeline of               *)
(* generate_title_card and its helpers hex_to_rgba, find_coeffs,           *)
(* calculate_font_size and apply_multiply.                                  *)
(***************************************************************************)
EXTENDS Integers, Sequences, FiniteSets, TLC

(***************************************************************************)
(* IEEE-754 binary64 arithmetic, as far as the program uses it: x / 255.0, *)
(* x * y, x * 255, x * 0.9 and truncation to an integer.  A float is       *)
(* [m, e] with value m * 2^e; m is a natural number held as a little-endian*)
(* sequence of NLimbs digits base LimbBase (TLC's integers are 32 bits).   *)
(***************************************************************************)
LimbBits == 15
LimbBase == 2 ^ LimbBits
NLimbs == 8
MantBits == 53

RECURSIVE Pow2(_)
Pow2(n) == IF n = 0 THEN 1 ELSE 2 * Pow2(n - 1)

BigZero == [i \in 1..NLimbs |-> 0]

Big(n) == [i \in 1..NLimbs |->
             IF i = 1 THEN n % LimbBase
             ELSE IF i = 2 THEN (n \div LimbBase) % LimbBase
             ELSE IF i = 3 THEN n \div (LimbBase * LimbBase)
             ELSE 0]

\* the low three digits as an integer (callers use it on values below 2^31)
BigToInt(x) == x[1] + LimbBase * x[2] + LimbBase * LimbBase * x[3]

RECURSIVE BigMulSmallFrom(_, _, _, _)
BigMulSmallFrom(x, k, i, c) ==
    IF i > NLimbs THEN <<>>
    ELSE LET t == x[i] * k + c
         IN  <<t % LimbBase>> \o BigMulSmallFrom(x, k, i + 1, t \div LimbBase)

\* x * k for 0 <= k <= LimbBase
BigMulSmall(x, k) == BigMulSmallFrom(x, k, 1, 0)

RECURSIVE BigAddFrom(_, _, _, _)
BigAddFrom(x, y, i, c) ==
    IF i > NLimbs THEN <<>>
    ELSE LET t == x[i] + y[i] + c
         IN  <<t % LimbBase>> \o BigAddFrom(x, y, i + 1, t \div LimbBase)

BigAdd(x, y) == BigAddFrom(x, y, 1, 0)

\* x * LimbBase^n
BigShiftLimbs(x, n) == [i \in 1..NLimbs |-> IF i <= n THEN 0 ELSE x[i - n]]

RECURSIVE BigMulFrom(_, _, _)
BigMulFrom(x, y, j) ==
    IF j > NLimbs THEN BigZero
    ELSE BigAdd(BigShiftLimbs(BigMulSmall(x, y[j]), j - 1), BigMulFrom(x, y, j + 1))

BigMul(x, y) == BigMulFrom(x, y, 1)

RECURSIVE BigDivSmallFrom(_, _, _, _)
\* long division from the top digit down; returns <<digits i..1 (top first), remainder>>
BigDivSmallFrom(x, d, i, r) ==
    IF i = 0 THEN <<<<>>, r>>
    ELSE LET t    == r * LimbBase + x[i]
             rest == BigDivSmallFrom(x, d, i - 1, t % d)
         IN  <<<<t \div d>> \o rest[1], rest[2]>>

\* x div d and x mod d for 1 <= d <= LimbBase
BigDivSmall(x, d) ==
    LET qr == BigDivSmallFrom(x, d, NLimbs, 0)
    IN  [q |-> [i \in 1..NLimbs |-> qr[1][NLimbs + 1 - i]], r |-> qr[2]]

RECURSIVE IntBitLen(_)
IntBitLen(n) == IF n = 0 THEN 0 ELSE 1 + IntBitLen(n \div 2)

RECURSIVE BigTop(_, _)
BigTop(x, i) == IF i = 0 THEN 0 ELSE IF x[i] # 0 THEN i ELSE BigTop(x, i - 1)

BigBitLen(x) ==
    LET h == BigTop(x, NLimbs)
    IN  IF h = 0 THEN 0 ELSE (h - 1) * LimbBits + IntBitLen(x[h])

RECURSIVE BigShiftRight(_, _, _)
\* x div 2^n, and whether any bit shifted out (or `sticky` before) was set
BigShiftRight(x, n, sticky) ==
    IF n = 0 THEN [q |-> x, sticky |-> sticky]
    ELSE IF n >= LimbBits
         THEN BigShiftRight([i \in 1..NLimbs |-> IF i = NLimbs THEN 0 ELSE x[i + 1]],
                            n - LimbBits, sticky \/ x[1] # 0)
         ELSE LET qr == BigDivSmall(x, Pow2(n))
              IN  [q |-> qr.q, sticky |-> sticky \/ qr.r # 0]

\* round p * 2^e (plus a nonzero tail when sticky) to 53 bits, ties to even
FRound(p, sticky, e) ==
    LET bl == BigBitLen(p)
    IN  IF bl <= MantBits THEN [m |-> p, e |-> e]
        ELSE LET s     == bl - MantBits
                 g     == BigShiftRight(p, s - 1, sticky)
                 guard == g.q[1] % 2
                 qs    == BigShiftRight(g.q, 1, FALSE).q
                 up    == guard = 1 /\ (g.sticky \/ qs[1] % 2 = 1)
             IN  [m |-> IF up THEN BigAdd(qs, Big(1)) ELSE qs, e |-> e + s]

FFromInt(n) == [m |-> Big(n), e |-> 0]

\* the double nearest to a / d, for integers 0 <= a, 1 <= d <= LimbBase
FDivInt(a, d) ==
    LET qr == BigDivSmall(BigShiftLimbs(Big(a), 5), d)
    IN  FRound(qr.q, qr.r # 0, 0 - 5 * LimbBits)

FMul(x, y) == FRound(BigMul(x.m, y.m), FALSE, x.e + y.e)

\* truncation toward zero of a non-negative float below 2^31
FTrunc(x) ==
    IF x.e >= 0 THEN BigToInt(x.m) * Pow2(x.e)
    ELSE BigToInt(BigShiftRight(x.m, 0 - x.e, FALSE).q)


(***************************************************************************)
(* State.  Text is a sequence of one-character strings.                    *)
(***************************************************************************)
VARIABLES
    \* generate_title_card: the argument, the locals and the output file
    pc, state, image, title_canvas, subtitle_canvas, title_font, subtitle_font,
    title_color, outline_color, position, title_height, final_image,
    saved, steps, diagnostics, error,
    \* hex_to_rgba: argument and outcome
    hex_color, hex_result, hex_pc,
    \* calculate_font_size: arguments, loop variable, position in the loop
    initial_size, max_width, font_size, cfs_pc,
    \* the overlay step on one pixel: operands, intermediate and result
    background_px, overlay_px, multiply_px, result_px, blend_pc

cardVars  == <<pc, state, image, title_canvas, subtitle_canvas, title_font,
               subtitle_font, title_color, outline_color, position, title_height,
               final_image, saved, steps, diagnostics, error>>
hexVars   == <<hex_color, hex_result, hex_pc>>
fontVars  == <<initial_size, max_width, font_size, cfs_pc>>
blendVars == <<background_px, overlay_px, multiply_px, result_px, blend_pc>>
vars      == <<cardVars, hexVars, fontVars, blendVars>>

None == "None"

(***************************************************************************)
(* hex_to_rgba                                                             *)
(***************************************************************************)
LowerHex == <<"0","1","2","3","4","5","6","7","8","9","a","b","c","d","e","f">>
UpperHex == <<"0","1","2","3","4","5","6","7","8","9","A","B","C","D","E","F">>
Signs == {"+", "-"}
Whitespace == {" "}

\* the value of a hexadecimal digit, -1 for any other character
DigitValue(c) ==
    IF \E i \in 1..16 : LowerHex[i] = c THEN (CHOOSE i \in 1..16 : LowerHex[i] = c) - 1
    ELSE IF \E i \in 1..16 : UpperHex[i] = c
         THEN (CHOOSE i \in 1..16 : UpperHex[i] = c) - 1
         ELSE 0 - 1

RECURSIVE lstrip(_, _)
lstrip(s, chars) ==
    IF s # <<>> /\ Head(s) \in chars THEN lstrip(Tail(s), chars) ELSE s

RECURSIVE rstrip(_, _)
rstrip(s, chars) ==
    IF s # <<>> /\ s[Len(s)] \in chars THEN rstrip(SubSeq(s, 1, Len(s) - 1), chars) ELSE s

\* s[i:j] of Python, i and j counted from 0
Slice(s, i, j) ==
    LET hi == IF j < Len(s) THEN j ELSE Len(s)
    IN  IF i >= hi THEN <<>> ELSE SubSeq(s, i + 1, hi)

RECURSIVE DigitsValue(_, _)
DigitsValue(s, acc) ==
    IF s = <<>> THEN acc ELSE DigitsValue(Tail(s), 16 * acc + DigitValue(Head(s)))

\* int(s, 16) of Python on the slices hex_to_rgba takes (at most two characters,
\* so neither a "0x" prefix nor a "_" separator can form a number): surrounding
\* whitespace is dropped, one sign is accepted, the rest must be hex digits.
PyInt16(s) ==
    LET t      == rstrip(lstrip(s, Whitespace), Whitespace)
        signed == t # <<>> /\ Head(t) \in Signs
        digits == IF signed THEN Tail(t) ELSE t
        good   == digits # <<>> /\ \A i \in 1..Len(digits) : DigitValue(digits[i]) >= 0
        mag    == DigitsValue(digits, 0)
    IN  IF ~good THEN [ok |-> FALSE, exc |-> "ValueError"]
        ELSE [ok |-> TRUE, value |-> IF signed /\ Head(t) = "-" THEN 0 - mag ELSE mag]

DefaultAlpha == 255

\* Faulty variant of hex_to_rgba: a three-digit string is not doubled
hex_to_rgba_no_double(hex) ==
    LET stripped == lstrip(hex, {"#"})
        part(i)  == PyInt16(Slice(stripped, i, i + 2))
    IN  IF part(0).ok /\ part(2).ok /\ part(4).ok
        THEN [ok |-> TRUE,
              value |-> <<part(0).value, part(2).value, part(4).value, DefaultAlpha>>]
        ELSE [ok |-> FALSE, exc |-> "ValueError"]

\* src/app.py hex_to_rgba(hex_color, alpha=255); every caller leaves alpha at its default
hex_to_rgba(hex) ==
    LET stripped == lstrip(hex, {"#"})
        expanded == IF Len(stripped) = 3
                    THEN <<stripped[1], stripped[1], stripped[2], stripped[2],
                           stripped[3], stripped[3]>>
                    ELSE stripped
        part(i)  == PyInt16(Slice(expanded, i, i + 2))
    IN  IF part(0).ok /\ part(2).ok /\ part(4).ok
        THEN [ok |-> TRUE,
              value |-> <<part(0).value, part(2).value, part(4).value, DefaultAlpha>>]
        ELSE [ok |-> FALSE, exc |-> "ValueError"]

(***************************************************************************)
(* calculate_font_size                                                     *)
(***************************************************************************)
MinFontSize == 20

\* int(font_size * 0.9)
ShrinkFontSize(fs) == FTrunc(FMul(FFromInt(fs), FDivInt(9, 10)))

(***************************************************************************)
(* apply_multiply and Image.alpha_composite, on one RGBA pixel <<r,g,b,a>>  *)
(***************************************************************************)
ChannelMax == 255

\* Faulty variant of Normalize01: the channels are divided by 256
Normalize01_by_256(px) == [c \in 1..4 |-> FDivInt(px[c], ChannelMax + 1)]

\* np.array(img).astype(float) / 255.0
Normalize01(px) == [c \in 1..4 |-> FDivInt(px[c], ChannelMax)]

\* (x * 255).astype(np.uint8)
ToUint8(x) == FTrunc(FMul(x, FFromInt(ChannelMax))) % 256

\* Faulty variant of apply_multiply: the result takes the background's alpha
apply_multiply_background_alpha(background, overlay) ==
    LET background_arr == Normalize01(background)
        overlay_arr    == Normalize01(overlay)
        result == [c \in 1..4 |->
                     IF c <= 3 THEN FMul(background_arr[c], overlay_arr[c])
                     ELSE background_arr[4]]
    IN  [c \in 1..4 |-> ToUint8(result[c])]

apply_multiply(background, overlay) ==
    LET background_arr == Normalize01(background)
        overlay_arr    == Normalize01(overlay)
        overlay_alpha  == overlay_arr[4]
        result == [c \in 1..4 |->
                     IF c <= 3 THEN FMul(background_arr[c], overlay_arr[c])
                     ELSE overlay_alpha]
    IN  [c \in 1..4 |-> ToUint8(result[c])]

PrecisionBits == 7

ShiftForDiv255(a) == (((a \div 256) + a) \div 256)

\* Image.alpha_composite(im1, im2) of Pillow: im2 (src) over im1 (dst)
alpha_composite(dst, src) ==
    IF src[4] = 0 THEN dst
    ELSE LET blend   == dst[4] * (255 - src[4])
             outa255 == src[4] * 255 + blend
             coef1   == (src[4] * 255 * 255 * Pow2(PrecisionBits)) \div outa255
             coef2   == 255 * Pow2(PrecisionBits) - coef1
             chan(c) == ShiftForDiv255(src[c] * coef1 + dst[c] * coef2
                                         + 128 * Pow2(PrecisionBits))
                          \div Pow2(PrecisionBits)
         IN  <<chan(1), chan(2), chan(3), ShiftForDiv255(outa255 + 128)>>


(***************************************************************************)
(* Idle values of the components a specification does not exercise         *)
(***************************************************************************)
CardIdle ==
    /\ pc = "idle" /\ state = None /\ image = None
    /\ title_canvas = None /\ subtitle_canvas = None
    /\ title_font = None /\ subtitle_font = None
    /\ title_color = None /\ outline_color = None
    /\ position = None /\ title_height = None /\ final_image = None
    /\ saved = <<>> /\ steps = <<>> /\ diagnostics = {} /\ error = None

HexIdle == hex_color = <<>> /\ hex_result = None /\ hex_pc = "idle"

FontIdle == initial_size = 0 /\ max_width = 0 /\ font_size = 0 /\ cfs_pc = "idle"

BlendIdle ==
    /\ background_px = None /\ overlay_px = None
    /\ multiply_px = None /\ result_px = None /\ blend_pc = "idle"

(***************************************************************************)
(* hex_to_rgba on every string over HexAlphabet of at most MaxHexLen       *)
(* characters                                                              *)
(***************************************************************************)
MaxHexLen == 6
HexAlphabet == {"#", "1", "a", "F", "+"}
HexPrefixes == {<<>>, <<"#">>}
HexStrings == {p \o b : p \in HexPrefixes,
                        b \in UNION {[1..n -> HexAlphabet] : n \in 0..MaxHexLen}}

InitHex ==
    /\ hex_color \in HexStrings
    /\ hex_result = None
    /\ hex_pc = "call"
    /\ CardIdle /\ FontIdle /\ BlendIdle

CallHexToRgba ==
    /\ hex_pc = "call"
    /\ hex_result' = hex_to_rgba(hex_color)
    /\ hex_pc' = "returned"
    /\ UNCHANGED <<hex_color, cardVars, fontVars, blendVars>>

NextHex == CallHexToRgba

SpecHex == InitHex /\ [][NextHex]_vars

(***************************************************************************)
(* calculate_font_size(text, font_path, max_width, initial_size); what the *)
(* text measures at each size is the font's affair, so any width may come  *)
(* back from textbbox.                                                     *)
(***************************************************************************)
MaxInitialSize == 60
MaxWidths == {100}
TextWidths(mw) == {mw - 1, mw, mw + 1}

InitFont ==
    /\ initial_size \in 1..MaxInitialSize
    /\ max_width \in MaxWidths
    /\ font_size = initial_size
    /\ cfs_pc = "loop"
    /\ CardIdle /\ HexIdle /\ BlendIdle

\* one pass of the while True loop that ends in the break
FontSizeBreak ==
    /\ cfs_pc = "loop"
    /\ \E text_width \in TextWidths(max_width) :
          text_width <= max_width \/ font_size <= MinFontSize
    /\ cfs_pc' = "returned"
    /\ UNCHANGED <<initial_size, max_width, font_size, cardVars, hexVars, blendVars>>

\* one pass of the loop that reduces the size and goes round again
FontSizeShrink ==
    /\ cfs_pc = "loop"
    /\ \E text_width \in TextWidths(max_width) :
          ~(text_width <= max_width \/ font_size <= MinFontSize)
    /\ font_size' = ShrinkFontSize(font_size)
    /\ UNCHANGED <<initial_size, max_width, cfs_pc, cardVars, hexVars, blendVars>>

NextFont == FontSizeBreak \/ FontSizeShrink

SpecFont == InitFont /\ [][NextFont]_vars

(***************************************************************************)
(* The overlay step (lines 202-209) on one pixel of the composite and the  *)
(* pixel of the resized overlay at the same place                          *)
(***************************************************************************)
BackgroundPixels == {<<2, 0, 3, 255>>, <<17, 195, 85, 255>>, <<255, 128, 1, 128>>,
                     <<85, 138, 65, 0>>}
OverlayRGB == {<<195, 17, 153>>, <<255, 0, 85>>}
Bytes == 0..ChannelMax

InitBlend ==
    /\ background_px \in BackgroundPixels
    /\ overlay_px \in {<<c[1], c[2], c[3], a>> : c \in OverlayRGB, a \in Bytes}
    /\ multiply_px = None /\ result_px = None
    /\ blend_pc = "multiply"
    /\ CardIdle /\ HexIdle /\ FontIdle

\* multiply_effect = apply_multiply(original_image, overlay)
ApplyMultiply ==
    /\ blend_pc = "multiply"
    /\ multiply_px' = apply_multiply(background_px, overlay_px)
    /\ blend_pc' = "composite"
    /\ UNCHANGED <<background_px, overlay_px, result_px, cardVars, hexVars, fontVars>>

\* final_image = Image.alpha_composite(original_image, multiply_effect)
CompositeMultiply ==
    /\ blend_pc = "composite"
    /\ result_px' = alpha_composite(background_px, multiply_px)
    /\ blend_pc' = "done"
    /\ UNCHANGED <<background_px, overlay_px, multiply_px, cardVars, hexVars, fontVars>>

NextBlend == ApplyMultiply \/ CompositeMultiply

SpecBlend == InitBlend /\ [][NextBlend]_vars


(***************************************************************************)
(* find_coeffs(pa, pb)                                                     *)
(***************************************************************************)
RankPrime == 32749

ModP(x) == ((x % RankPrime) + RankPrime) % RankPrime

\* the 8 x 8 matrix of lines 219-222: two rows for each pair of points
CoeffMatrix(pa, pb) ==
    [k \in 1..8 |->
        LET p1 == pa[(k + 1) \div 2]
            p2 == pb[(k + 1) \div 2]
        IN  IF k % 2 = 1
            THEN <<p1[1], p1[2], 1, 0, 0, 0, (0 - p2[1]) * p1[1], (0 - p2[1]) * p1[2]>>
            ELSE <<0, 0, 0, p1[1], p1[2], 1, (0 - p2[2]) * p1[1], (0 - p2[2]) * p1[2]>>]

RECURSIVE FullRank(_, _)
\* Gaussian elimination modulo RankPrime from column col on: TRUE when every
\* column yields a pivot, which shows the integer matrix to be invertible
FullRank(m, col) ==
    IF col > 8 THEN TRUE
    ELSE LET rows == {r \in col..8 : m[r][col] # 0}
         IN  IF rows = {} THEN FALSE
             ELSE LET pr      == CHOOSE r \in rows : \A q \in rows : r <= q
                      swapped == [r \in 1..8 |-> IF r = col THEN m[pr]
                                                 ELSE IF r = pr THEN m[col] ELSE m[r]]
                      piv     == swapped[col][col]
                      reduced == [r \in 1..8 |->
                                    IF r <= col THEN swapped[r]
                                    ELSE [c \in 1..8 |->
                                            ModP(ModP(swapped[r][c] * piv)
                                                 - ModP(swapped[col][c] * swapped[r][col]))]]
                  IN  FullRank(reduced, col + 1)

\* np.linalg.inv(A.T * A) raises LinAlgError on a singular matrix; A.T * A is
\* singular exactly when the square matrix A is.  The coefficients themselves are
\* kept as the pair of quadrilaterals they map.
find_coeffs(pa, pb) ==
    LET A == CoeffMatrix(pa, pb)
    IN  IF FullRank([r \in 1..8 |-> [c \in 1..8 |-> ModP(A[r][c])]], 1)
        THEN [ok |-> TRUE, value |-> [from |-> pa, to |-> pb]]
        ELSE [ok |-> FALSE, exc |-> "LinAlgError"]

(***************************************************************************)
(* generate_title_card(state, output_path)                                 *)
(***************************************************************************)
WIDTH == 1920
HEIGHT == 1080

\* an Optional[int] is the empty set (None) or a one-element set
NoInt == {}
Some(n) == {n}

MaxOutline == 7
PipelineOutlines == {0 - 1, 0, 2}
MaxBloodLevel == 6
Themes == {None, "evil", "blood"}
Effects == {None, "glitch", "distort", "shadow"}
TitleColors == {<<"#", "e", "b", "e", "d", "0", "0">>, <<"#", "1", "2">>}
OutlineColors == {<<"#", "0", "0", "0">>, <<"0", "0", "0", "0", "g", "g">>}
\* what textbbox measures, as <<width, height>>
TitleBoxes == {<<1000, 300>>, <<1501, 421>>}
SmallSubtitleBox == <<601, 41>>
SubtitleBox == <<900, 40>>

White == <<255, 255, 255, 255>>

NewImage(color) == [kind |-> "solid", color |-> color, mode |-> "RGBA"]
NewCanvas == [stamps |-> <<>>, transforms |-> <<>>]
Stamp(xy, text, fill, font) ==
    [xy |-> xy, text |-> text, fill |-> fill, font |-> font, anchor |-> "lt"]
AlphaCompositeImage(im1, im2) == [op |-> "alpha_composite", im1 |-> im1, im2 |-> im2]
MultiplyImage(background, overlay) ==
    [op |-> "apply_multiply", background |-> background, overlay |-> overlay]

\* the state at the call: any EditorState over the given sets, nothing drawn yet
CardInit(outlines, credits, themes, effects, blood_levels, colors, outline_colors) ==
    /\ pc = "background"
    /\ state \in [text : {"title"}, small_subtitle : {"small_subtitle"},
                  subtitle : {"subtitle"},
                  title_font_size : {470}, subtitle_font_size : {40},
                  color : colors, outline_color : outline_colors,
                  outline : outlines, show_credits : credits,
                  theme : themes, effect : effects, blood_level : blood_levels]
    /\ image = None /\ title_canvas = None /\ subtitle_canvas = None
    /\ title_font = None /\ subtitle_font = None
    /\ title_color = None /\ outline_color = None
    /\ position = None /\ title_height = None /\ final_image = None
    /\ saved = <<>> /\ steps = <<>> /\ diagnostics = {} /\ error = None
    /\ HexIdle /\ FontIdle /\ BlendIdle

Init ==
    CardInit(PipelineOutlines, BOOLEAN, Themes, Effects,
             {NoInt} \cup {Some(n) : n \in 0..MaxBloodLevel},
             TitleColors, OutlineColors)

\* lines 38-60: the background for the theme, or blue.jpg, or its fallback
LoadBackground ==
    /\ pc = "background"
    /\ \/ /\ state.theme = "blood"
          /\ image' = NewImage(<<2, 0, 3, 255>>)
          /\ UNCHANGED diagnostics
       \/ /\ state.theme = "evil"
          /\ image' = NewImage(<<254, 228, 91, 255>>)
          /\ UNCHANGED diagnostics
       \/ /\ state.theme \notin {"blood", "evil"}
          /\ image' = [kind |-> "file", color |-> <<>>, mode |-> "RGBA"]
          /\ UNCHANGED diagnostics
       \/ /\ state.theme \notin {"blood", "evil"}
          /\ image' = NewImage(<<0, 0, 139, 255>>)
          /\ diagnostics' = diagnostics \cup {"Background image not found"}
    /\ pc' = "canvases"
    /\ steps' = Append(steps, "background")
    /\ UNCHANGED <<state, title_canvas, subtitle_canvas, title_font, subtitle_font,
                   title_color, outline_color, position, title_height, final_image,
                   saved, error, hexVars, fontVars, blendVars>>

\* lines 62-68: one canvas for the title, another for the subtitles
NewCanvases ==
    /\ pc = "canvases"
    /\ title_canvas' = NewCanvas
    /\ subtitle_canvas' = NewCanvas
    /\ pc' = "fonts"
    /\ steps' = Append(steps, "canvases")
    /\ UNCHANGED <<state, image, title_font, subtitle_font, title_color, outline_color,
                   position, title_height, final_image, saved, diagnostics, error,
                   hexVars, fontVars, blendVars>>

\* lines 75-91: each font, or the default font at the same size
LoadFonts ==
    /\ pc = "fonts"
    /\ \E title_found \in BOOLEAN, subtitle_found \in BOOLEAN :
          /\ title_font' = [name |-> IF title_found THEN "woodblock.otf" ELSE "default",
                            size |-> state.title_font_size]
          /\ subtitle_font' = [name |-> IF subtitle_found THEN "futura-medium.ttf"
                                        ELSE "default",
                               size |-> state.subtitle_font_size]
          /\ diagnostics' = diagnostics
                \cup (IF title_found THEN {} ELSE {"Woodblock font not found"})
                \cup (IF subtitle_found THEN {} ELSE {"Futura font not found"})
    /\ pc' = "colors"
    /\ steps' = Append(steps, "fonts")
    /\ UNCHANGED <<state, image, title_canvas, subtitle_canvas, title_color,
                   outline_color, position, title_height, final_image, saved, error,
                   hexVars, fontVars, blendVars>>

\* Faulty variant of ConvertColors: a color that does not parse is replaced by
\* white and the render goes on
ConvertColorsFallback ==
    /\ pc = "colors"
    /\ LET tc == hex_to_rgba(state.color)
           oc == hex_to_rgba(state.outline_color)
       IN  /\ title_color' = (IF tc.ok THEN tc.value ELSE <<255, 255, 255, 255>>)
           /\ outline_color' = (IF oc.ok THEN oc.value ELSE <<255, 255, 255, 255>>)
    /\ pc' = "title"
    /\ steps' = Append(steps, "colors")
    /\ UNCHANGED <<state, image, title_canvas, subtitle_canvas, title_font,
                   subtitle_font, position, title_height, final_image, saved,
                   diagnostics, error, hexVars, fontVars, blendVars>>

\* lines 93-95: a ValueError of hex_to_rgba is caught nowhere
ConvertColors ==
    /\ pc = "colors"
    /\ LET tc == hex_to_rgba(state.color)
           oc == hex_to_rgba(state.outline_color)
       IN  IF tc.ok /\ oc.ok
           THEN /\ title_color' = tc.value
                /\ outline_color' = oc.value
                /\ pc' = "title"
                /\ steps' = Append(steps, "colors")
                /\ UNCHANGED error
           ELSE /\ error' = (IF tc.ok THEN oc.exc ELSE tc.exc)
                /\ title_color' = (IF tc.ok THEN tc.value ELSE title_color)
                /\ pc' = "failed"
                /\ UNCHANGED <<outline_color, steps>>
    /\ UNCHANGED <<state, image, title_canvas, subtitle_canvas, title_font,
                   subtitle_font, position, title_height, final_image, saved,
                   diagnostics, hexVars, fontVars, blendVars>>

\* range(start, stop, step) for step > 0
PyRange(start, stop, step) ==
    IF stop <= start THEN <<>>
    ELSE [i \in 1..((stop - start + step - 1) \div step) |-> start + (i - 1) * step]

Max(a, b) == IF a >= b THEN a ELSE b

\* Faulty variant of OutlineOffsets: both ranges stop short of +outline_size
OutlineOffsetsExclusive(outline_size) ==
    LET range == PyRange(0 - outline_size, outline_size, Max(1, outline_size \div 3))
        n     == Len(range)
        all   == [k \in 1..(n * n) |-> <<range[((k - 1) \div n) + 1], range[((k - 1) % n) + 1]>>]
    IN  SelectSeq(all, LAMBDA o : ~(o[1] = 0 /\ o[2] = 0))

\* lines 104-117: the offsets stamped in the outline color, x outer, y inner
OutlineOffsets(outline_size) ==
    LET range == PyRange(0 - outline_size, outline_size + 1, Max(1, outline_size \div 3))
        n     == Len(range)
        all   == [k \in 1..(n * n) |-> <<range[((k - 1) \div n) + 1], range[((k - 1) % n) + 1]>>]
    IN  SelectSeq(all, LAMBDA o : ~(o[1] = 0 /\ o[2] = 0))

\* lines 97-126: measure the title, stamp the outline, then the fill
DrawTitle ==
    /\ pc = "title"
    /\ \E box \in TitleBoxes :
          LET title_width == box[1]
              pos == <<WIDTH \div 2 - title_width \div 2, HEIGHT \div 2 - box[2] \div 2>>
              offsets == IF state.outline > 0 THEN OutlineOffsets(state.outline) ELSE <<>>
              ring == [k \in 1..Len(offsets) |->
                         Stamp(<<pos[1] + offsets[k][1], pos[2] + offsets[k][2]>>,
                               state.text, outline_color, title_font)]
          IN  /\ position' = pos
              /\ title_height' = box[2]
              /\ title_canvas' =
                    [title_canvas EXCEPT !.stamps =
                        @ \o ring \o <<Stamp(pos, state.text, title_color, title_font)>>]
    /\ pc' = "subtitles"
    /\ steps' = Append(steps, "title")
    /\ UNCHANGED <<state, image, subtitle_canvas, title_font, subtitle_font, title_color,
                   outline_color, final_image, saved, diagnostics, error,
                   hexVars, fontVars, blendVars>>

\* lines 128-155: the two credit lines, stacked below the title; the vertical
\* places are kept in tenths of a pixel (title_height * 0.8, small_height * 1.5)
DrawSubtitles ==
    /\ pc = "subtitles"
    /\ IF state.show_credits
       THEN LET fill == IF state.theme = "evil" THEN title_color ELSE White
                small_width  == SmallSubtitleBox[1]
                small_height == SmallSubtitleBox[2]
                sub_width    == SubtitleBox[1]
                y1 == 10 * position[2] + 8 * title_height + 800
                y2 == 10 * position[2] + 8 * title_height + 15 * small_height + 900
            IN  subtitle_canvas' =
                   [subtitle_canvas EXCEPT !.stamps =
                       @ \o <<Stamp(<<10 * (WIDTH \div 2 - small_width \div 2), y1>>,
                                    state.small_subtitle, fill, subtitle_font),
                              Stamp(<<10 * (WIDTH \div 2 - sub_width \div 2), y2>>,
                                    state.subtitle, fill, subtitle_font)>>]
       ELSE UNCHANGED subtitle_canvas
    /\ pc' = "perspective"
    /\ steps' = Append(steps, "subtitles")
    /\ UNCHANGED <<state, image, title_canvas, title_font, subtitle_font, title_color,
                   outline_color, position, title_height, final_image, saved,
                   diagnostics, error, hexVars, fontVars, blendVars>>

\* lines 157-176: the two quadrilaterals of the keystone; width * 0.1 and
\* width * 0.9 are whole numbers of pixels
PerspectiveQuad ==
    LET width  == WIDTH
        height == HEIGHT
    IN  <<<<FTrunc(FMul(FFromInt(width), FDivInt(1, 10))), 0>>,
          <<FTrunc(FMul(FFromInt(width), FDivInt(9, 10))), 0>>,
          <<0, height>>, <<width, height>>>>
CanvasQuad == <<<<0, 0>>, <<WIDTH, 0>>, <<0, HEIGHT>>, <<WIDTH, HEIGHT>>>>
Coeffs == find_coeffs(PerspectiveQuad, CanvasQuad)

\* Faulty variant of ApplyPerspective: the subtitle canvas is transformed as well
ApplyPerspectiveBoth ==
    /\ pc = "perspective"
    /\ LET t == [method |-> "PERSPECTIVE", data |-> Coeffs.value, resample |-> "BICUBIC"]
       IN  /\ title_canvas' = [title_canvas EXCEPT !.transforms = Append(@, t)]
           /\ subtitle_canvas' = [subtitle_canvas EXCEPT !.transforms = Append(@, t)]
    /\ pc' = "composite_title"
    /\ steps' = Append(steps, "perspective")
    /\ UNCHANGED <<state, image, title_font, subtitle_font, title_color,
                   outline_color, position, title_height, final_image, saved,
                   diagnostics, error, hexVars, fontVars, blendVars>>

\* lines 157-184: only title_canvas is transformed; a LinAlgError is caught nowhere
ApplyPerspective ==
    /\ pc = "perspective"
    /\ IF Coeffs.ok
       THEN /\ title_canvas' =
                  [title_canvas EXCEPT !.transforms =
                      Append(@, [method |-> "PERSPECTIVE", data |-> Coeffs.value,
                                 resample |-> "BICUBIC"])]
            /\ pc' = "composite_title"
            /\ steps' = Append(steps, "perspective")
            /\ UNCHANGED error
       ELSE /\ error' = Coeffs.exc
            /\ pc' = "failed"
            /\ UNCHANGED <<title_canvas, steps>>
    /\ UNCHANGED <<state, image, subtitle_canvas, title_font, subtitle_font, title_color,
                   outline_color, position, title_height, final_image, saved,
                   diagnostics, hexVars, fontVars, blendVars>>

\* lines 186-190
CompositeTitle ==
    /\ pc = "composite_title"
    /\ final_image' = AlphaCompositeImage(image, title_canvas)
    /\ pc' = "composite_subtitle"
    /\ steps' = Append(steps, "composite_title")
    /\ UNCHANGED <<state, image, title_canvas, subtitle_canvas, title_font,
                   subtitle_font, title_color, outline_color, position, title_height,
                   saved, diagnostics, error, hexVars, fontVars, blendVars>>

\* lines 191-192
CompositeSubtitle ==
    /\ pc = "composite_subtitle"
    /\ final_image' = AlphaCompositeImage(final_image, subtitle_canvas)
    /\ pc' = "overlay"
    /\ steps' = Append(steps, "composite_subtitle")
    /\ UNCHANGED <<state, image, title_canvas, subtitle_canvas, title_font,
                   subtitle_font, title_color, outline_color, position, title_height,
                   saved, diagnostics, error, hexVars, fontVars, blendVars>>

\* Faulty variant of OverlayStep: a missing overlay file ends the render
OverlayStepUncaught ==
    /\ pc = "overlay"
    /\ LET blood_level == state.blood_level
       IN  IF blood_level # NoInt /\ \A n \in blood_level : 1 <= n /\ n <= 5
           THEN \E found \in BOOLEAN :
                   IF found
                   THEN LET n == CHOOSE k \in blood_level : TRUE
                            overlay == [kind |-> "fx", level |-> n, mode |-> "RGBA"]
                        IN  /\ final_image' =
                                  AlphaCompositeImage(final_image,
                                                      MultiplyImage(final_image, overlay))
                            /\ steps' = Append(steps, "multiply")
                            /\ pc' = "save"
                            /\ UNCHANGED <<diagnostics, error>>
                   ELSE /\ diagnostics' =
                              diagnostics \cup {"Blood effect overlay not found"}
                        /\ error' = "FileNotFoundError"
                        /\ pc' = "failed"
                        /\ UNCHANGED <<final_image, steps>>
           ELSE /\ pc' = "save"
                /\ UNCHANGED <<final_image, steps, diagnostics, error>>
    /\ UNCHANGED <<state, image, title_canvas, subtitle_canvas, title_font,
                   subtitle_font, title_color, outline_color, position, title_height,
                   saved, hexVars, fontVars, blendVars>>

\* lines 194-211: the blood overlay, when a level 1..5 is given and its file exists
OverlayStep ==
    /\ pc = "overlay"
    /\ LET blood_level == state.blood_level
       IN  IF blood_level # NoInt /\ \A n \in blood_level : 1 <= n /\ n <= 5
           THEN \E found \in BOOLEAN :
                   IF found
                   THEN LET n == CHOOSE k \in blood_level : TRUE
                            overlay == [kind |-> "fx", level |-> n, mode |-> "RGBA"]
                            original_image == final_image
                            multiply_effect == MultiplyImage(original_image, overlay)
                        IN  /\ final_image' =
                                  AlphaCompositeImage(original_image, multiply_effect)
                            /\ steps' = Append(steps, "multiply")
                            /\ UNCHANGED diagnostics
                   ELSE /\ diagnostics' =
                              diagnostics \cup {"Blood effect overlay not found"}
                        /\ UNCHANGED <<final_image, steps>>
           ELSE UNCHANGED <<final_image, steps, diagnostics>>
    /\ pc' = "save"
    /\ UNCHANGED <<state, image, title_canvas, subtitle_canvas, title_font,
                   subtitle_font, title_color, outline_color, position, title_height,
                   saved, error, hexVars, fontVars, blendVars>>

\* lines 213-215
Save ==
    /\ pc = "save"
    /\ saved' = Append(saved, [image |-> final_image, format |-> "PNG"])
    /\ pc' = "done"
    /\ steps' = Append(steps, "save")
    /\ UNCHANGED <<state, image, title_canvas, subtitle_canvas, title_font,
                   subtitle_font, title_color, outline_color, position, title_height,
                   final_image, diagnostics, error, hexVars, fontVars, blendVars>>

Next ==
    \/ LoadBackground \/ NewCanvases \/ LoadFonts \/ ConvertColors
    \/ DrawTitle \/ DrawSubtitles \/ ApplyPerspective
    \/ CompositeTitle \/ CompositeSubtitle \/ OverlayStep \/ Save

Spec == Init /\ [][Next]_vars

\* the same program on every outline radius up to MaxOutline, without credits,
\* effect or overlay
InitOutline ==
    CardInit((0 - 1)..MaxOutline, {FALSE}, Themes, {None}, {NoInt},
             TitleColors, OutlineColors)

SpecOutline == InitOutline /\ [][Next]_vars


(***************************************************************************)
(* Properties                                                              *)
(***************************************************************************)
CompletedSteps ==
    <<"background", "canvases", "fonts", "colors", "title", "subtitles",
      "perspective", "composite_title", "composite_subtitle">>

\* background, then the title canvas, then the subtitle canvas
TextComposite ==
    AlphaCompositeImage(AlphaCompositeImage(image, title_canvas), subtitle_canvas)

IsOverlaid(img, base) ==
    /\ img.op = "alpha_composite"
    /\ img.im1 = base
    /\ img.im2.op = "apply_multiply"
    /\ img.im2.background = base

\* C1: in a completed run of generate_title_card the title and the subtitles
\* are on separate canvases, only the title canvas carries the perspective
\* transform, the title canvas is composited onto the background before the
\* subtitle canvas, the multiply overlay (when it runs) comes after both and is
\* the last change of the image, and the image is saved once, after all that;
\* nothing is saved before the run completes.
C1_PipelineOrder ==
    /\ pc # "done" => saved = <<>>
    /\ pc = "done" =>
          /\ \A k \in 1..Len(title_canvas.stamps) :
                title_canvas.stamps[k].text = state.text
          /\ \A k \in 1..Len(subtitle_canvas.stamps) :
                subtitle_canvas.stamps[k].text \in {state.small_subtitle, state.subtitle}
          /\ Len(title_canvas.transforms) = 1
          /\ title_canvas.transforms[1].method = "PERSPECTIVE"
          /\ subtitle_canvas.transforms = <<>>
          /\ \/ /\ steps = CompletedSteps \o <<"save">>
                /\ final_image = TextComposite
             \/ /\ steps = CompletedSteps \o <<"multiply", "save">>
                /\ IsOverlaid(final_image, TextComposite)
          /\ Len(saved) = 1
          /\ saved[1].image = final_image

C1_Witness ==
    /\ pc = "done"
    /\ state.show_credits
    /\ steps = CompletedSteps \o <<"multiply", "save">>

\* the offsets the outline rule names: [-r, r] x [-r, r] stepped from -r by
\* max(1, r // 3), without (0, 0)
RingOffsets(r) ==
    LET step == IF r \div 3 >= 1 THEN r \div 3 ELSE 1
        on(d) == (d + r) % step = 0
    IN  {o \in ((0 - r)..r) \X ((0 - r)..r) : on(o[1]) /\ on(o[2])} \ {<<0, 0>>}

\* C2: for every outline radius r >= 0 and title position (x, y) the title
\* stamps are, when r > 0, one stamp in the outline color at (x+dx, y+dy) for
\* each offset of the ring, and then exactly one stamp in the fill color at
\* (x, y), which is the last; when r = 0 the fill stamp is the only one.
C2_OutlineStamps ==
    (pc \in {"subtitles", "perspective", "composite_title", "composite_subtitle",
             "overlay", "save", "done"} /\ state.outline >= 0) =>
        LET r     == state.outline
            st    == title_canvas.stamps
            n     == Len(st)
            ring  == IF r > 0 THEN RingOffsets(r) ELSE {}
            at(k) == <<st[k].xy[1] - position[1], st[k].xy[2] - position[2]>>
        IN  /\ n = Cardinality(ring) + 1
            /\ st[n].xy = position
            /\ st[n].fill = title_color
            /\ \A k \in 1..(n - 1) : st[k].fill = outline_color /\ at(k) \in ring
            /\ {at(k) : k \in 1..(n - 1)} = ring
            /\ \A k \in 1..n : st[k].text = state.text /\ st[k].anchor = "lt"
            /\ r = 0 => st = <<Stamp(position, state.text, title_color, title_font)>>

C2_Witness ==
    /\ pc = "done"
    /\ state.outline = MaxOutline
    /\ Len(title_canvas.stamps) > 1
    /\ title_canvas.stamps[1].fill = outline_color

IsHexDigit(c) == \E i \in 1..16 : c = LowerHex[i] \/ c = UpperHex[i]

\* what follows the one leading "#", if there is one
HexBody(s) == IF s # <<>> /\ Head(s) = "#" THEN Tail(s) ELSE s

HexDigitsOfLen(s, n) ==
    Len(HexBody(s)) = n /\ \A i \in 1..n : IsHexDigit(HexBody(s)[i])

WellFormedHex(s) == HexDigitsOfLen(s, 3) \/ HexDigitsOfLen(s, 6)

\* C3: hex_to_rgba raises for every string that after its leading "#" is not
\* exactly 3 or exactly 6 hexadecimal digits; it returns no color for one.
C3_MalformedRejected ==
    (hex_pc = "returned" /\ ~WellFormedHex(hex_color)) => ~hex_result.ok

\* C4: when hex_to_rgba fails on the title color or the outline color, or
\* find_coeffs fails, generate_title_card stops there with that failure and
\* nothing is saved: such a run never gets past the failing step.
C4_FailureAborts ==
    /\ error # None =>
          /\ pc = "failed"
          /\ saved = <<>>
          /\ ~ENABLED Next
    /\ (~hex_to_rgba(state.color).ok \/ ~hex_to_rgba(state.outline_color).ok) =>
          /\ pc \in {"background", "canvases", "fonts", "colors", "failed"}
          /\ pc = "failed" => error = "ValueError"
    /\ ~Coeffs.ok =>
          /\ pc \notin {"composite_title", "composite_subtitle", "overlay", "save", "done"}
    /\ pc = "failed" => error \in {"ValueError", "LinAlgError"}

C4_Witness ==
    /\ pc = "failed"
    /\ error = "ValueError"
    /\ hex_to_rgba(state.color).ok
    /\ ~hex_to_rgba(state.outline_color).ok
    /\ saved = <<>>

\* C5: for every blood level 1..5 whose overlay file is missing the overlay
\* step is skipped without failing: the image stays the composite of
\* background, title and subtitle, the run goes on to save, and what is saved
\* is that composite.
C5_MissingOverlaySkipped ==
    "Blood effect overlay not found" \in diagnostics =>
        /\ \E n \in 1..5 : state.blood_level = Some(n)
        /\ error = None
        /\ final_image = TextComposite
        /\ pc \in {"save", "done"}
        /\ pc = "save" => ENABLED Save
        /\ pc = "done" => saved = <<[image |-> TextComposite, format |-> "PNG"]>>

C5_Witness ==
    /\ pc = "done"
    /\ state.blood_level = Some(5)
    /\ "Blood effect overlay not found" \in diagnostics
    /\ Len(saved) = 1

\* C6: every pixel whose overlay alpha is 0 keeps its RGBA value through the
\* overlay step (apply_multiply, then alpha_composite onto the pre-overlay
\* image).
C6_TransparentOverlayKeepsPixel ==
    (blend_pc = "done" /\ overlay_px[4] = 0) => result_px = background_px

C6_Witness ==
    /\ blend_pc = "done"
    /\ overlay_px[4] = 0
    /\ background_px[4] = 255
    /\ <<multiply_px[1], multiply_px[2], multiply_px[3]>>
          # <<background_px[1], background_px[2], background_px[3]>>

\* how often the configured effect was applied to the composited image
EffectApplications == Cardinality({k \in 1..Len(steps) : steps[k] = state.effect})

\* C7: when the configuration's effect is glitch, distort or shadow,
\* generate_title_card applies it exactly once, after the two composites and
\* before the overlay step.
C7_EffectAppliedOnce ==
    (pc = "done" /\ state.effect \in {"glitch", "distort", "shadow"}) =>
        /\ EffectApplications = 1
        /\ \E k \in 1..Len(steps) :
              /\ steps[k] = state.effect
              /\ k > 1 /\ steps[k - 1] = "composite_subtitle"

\* C8: the alpha of the pixel apply_multiply returns is the overlay pixel's
\* alpha, whatever the base alpha, with nothing lost on the way to 0..1 and back.
C8_MultiplyAlphaIsOverlayAlpha ==
    blend_pc \in {"composite", "done"} => multiply_px[4] = overlay_px[4]

C8_Witness ==
    /\ blend_pc = "composite"
    /\ overlay_px[4] = 127
    /\ background_px[4] = 128

\* a byte as two lowercase hexadecimal digits
ByteToHex(b) == <<LowerHex[(b \div 16) + 1], LowerHex[(b % 16) + 1]>>

LowerChar(c) ==
    IF \E i \in 1..16 : UpperHex[i] = c
    THEN LowerHex[CHOOSE i \in 1..16 : UpperHex[i] = c]
    ELSE c

\* the hex string without "#", in lowercase, three digits doubled to six
NormalizeHex(s) ==
    LET body == [i \in 1..Len(HexBody(s)) |-> LowerChar(HexBody(s)[i])]
    IN  IF Len(body) = 3
        THEN <<body[1], body[1], body[2], body[2], body[3], body[3]>>
        ELSE body

\* C9: for every valid 6-digit hex string, with or without "#", hex_to_rgba
\* returns (R, G, B, 255) whose bytes written back as two hex digits each give
\* the normalized string; a valid 3-digit string gives the color of the
\* 6-digit string with each digit doubled.
C9_HexRoundTrip ==
    (hex_pc = "returned" /\ WellFormedHex(hex_color)) =>
        /\ hex_result.ok
        /\ hex_result.value[4] = 255
        /\ \A i \in 1..3 : hex_result.value[i] \in 0..255
        /\ ByteToHex(hex_result.value[1]) \o ByteToHex(hex_result.value[2])
              \o ByteToHex(hex_result.value[3]) = NormalizeHex(hex_color)

C9_Witness ==
    /\ hex_pc = "returned"
    /\ hex_color = <<"#", "a", "F", "1", "1", "F", "a">>
    /\ hex_result.ok
    /\ hex_result.value = <<175, 17, 250, 255>>

\* C10: for every initial_size >= 20, whatever the text measures,
\* calculate_font_size returns a font size >= 20.
C10_NotBelowMinimum ==
    (cfs_pc = "returned" /\ initial_size >= MinFontSize) => font_size >= MinFontSize

====
